---- MODULE Spec2Model ----
(***************************************************************************)
(* A model of cacher.go: the Cacher/Cache contract and its local-disk      *)
(* implementation LocalCacher (Get, Set, localName) with the entry type    *)
(* localCache (Read, Seek, Close, Name, ModTime), over an explicit model   *)
(* of the file system calls they make (os.Open, File.Stat, os.MkdirAll,    *)
(* ioutil.WriteFile, os.TempDir).                                          *)
(*                                                                         *)
(* A string is modelled by the sequence of its "/"-separated segments      *)
(* (strings.Split(s, "/")), which determines the string: "a/b" is          *)
(* <<"a","b">>, "a//b" is <<"a","","b">>, "" is <<"">>, "/tmp" is          *)
(* <<"","tmp">>.  A file system path that the kernel has resolved is the   *)
(* sequence of its components from the root directory.                     *)
(***************************************************************************)
EXTENDS Integers, Sequences, FiniteSets, TLC

VARIABLES fs,       \* the file system: resolved path -> node
          mt,       \* the modification time of each node of fs
          now,      \* the clock the file system stamps modifications with
          handles,  \* the number of file descriptors the process has open
          th,       \* one record per calling goroutine
          faults,   \* I/O faults the environment may still inject
          env,      \* what the callers use: the Root strings of the LocalCacher
                    \* values (stores), the cache names (names), the states of
                    \* the contexts (ctxs) and the payloads (payloads); and the
                    \* value of the TMPDIR environment variable (tmpdir)
          everSet   \* history: the <<Root, name>> pairs ever passed to Set

vars == <<fs, mt, now, handles, th, faults, env, everSet>>

\* ------------------------------------------------------------------ bounds
MaxLen == 2            \* longest payload
MaxFaults == 1         \* I/O faults injected in one run
MaxClock == 2          \* last reading of the clock
MaxSeek == MaxLen + 1  \* farthest position Seek is called for

Bytes == {1, 2}
Payloads == UNION {[1..k -> Bytes] : k \in 0..MaxLen}
Threads == {1, 2}

NoData == <<-1>>       \* "no payload" (never a payload: -1 is no byte)
NoPath == <<"?">>      \* "no path"
NoName == <<"?">>      \* "no name"
NoTime == -1           \* "no time"

\* ------------------------------------------------------- the environment
Cwd == <<"w">>             \* the working directory relative paths resolve in
DefaultTempDir == <<"", "tmp">>   \* "/tmp"

\* os.TempDir(): $TMPDIR, or "/tmp" when it is empty.
TempDir == IF env.tmpdir = <<"">> THEN DefaultTempDir ELSE env.tmpdir

Min(S) == CHOOSE x \in S : \A y \in S : x <= y
Front(s) == SubSeq(s, 1, Len(s) - 1)
Prefix(s, i) == SubSeq(s, 1, i)
IsPrefix(p, q) == Len(p) <= Len(q) /\ Prefix(q, Len(p)) = p

\* ------------------------------------------------------- path/filepath
\* filepath.FromSlash: replaces "/" by the platform separator; the segments
\* of the string are the same on either side of the conversion.
FromSlash(s) == s

IsRooted(s) == Len(s) > 1 /\ s[1] = ""

\* filepath.Clean, on segments: drops empty and "." segments, lets ".."
\* remove the segment before it (at the root it is dropped, at the start
\* of a relative path it is kept).
RECURSIVE CleanSegs(_, _, _)
CleanSegs(rooted, out, rest) ==
    IF rest = << >> THEN out
    ELSE LET x == Head(rest) IN
         IF x = "" \/ x = "." THEN CleanSegs(rooted, out, Tail(rest))
         ELSE IF x = ".." THEN
              IF out # << >> /\ out[Len(out)] # ".."
                  THEN CleanSegs(rooted, Front(out), Tail(rest))
              ELSE IF rooted THEN CleanSegs(rooted, out, Tail(rest))
              ELSE CleanSegs(rooted, Append(out, ".."), Tail(rest))
         ELSE CleanSegs(rooted, Append(out, x), Tail(rest))

Clean(s) ==
    LET r == IsRooted(s)
        out == CleanSegs(r, << >>, s)
    IN  IF r THEN (IF out = << >> THEN <<"", "">> ELSE <<"">> \o out)
        ELSE (IF out = << >> THEN <<".">> ELSE out)

\* filepath.Join of two elements: empty elements are ignored, the rest is
\* joined with the separator and cleaned.
Join(a, b) ==
    IF a = <<"">> /\ b = <<"">> THEN <<"">>
    ELSE IF a = <<"">> THEN Clean(b)
    ELSE IF b = <<"">> THEN Clean(a)
    ELSE Clean(a \o b)

\* filepath.Dir of a cleaned path: all but the last element, cleaned.
Dir(p) ==
    IF Len(p) = 1 THEN <<".">>
    ELSE IF Front(p) = <<"">> THEN <<"", "">>
    ELSE Clean(Front(p))

\* localName with the directories of the name dropped (filepath.Base).
localNameBase(root, name) ==
    LET n == <<FromSlash(name)[Len(name)]>> IN
    IF root # <<"">> THEN Join(FromSlash(root), n)
    ELSE Join(TempDir, n)

\* localName with Root ignored: every store under the temp directory.
localNameTemp(root, name) == Join(TempDir, FromSlash(name))

\* localName with the temp directory resolved once, when the program starts.
localNameCached(root, name) ==
    LET n == FromSlash(name) IN
    IF root # <<"">> THEN Join(FromSlash(root), n)
    ELSE Join(DefaultTempDir, n)

\* LocalCacher.localName
localName(root, name) ==
    LET n == FromSlash(name) IN
    IF root # <<"">> THEN Join(FromSlash(root), n)
    ELSE Join(TempDir, n)

\* ------------------------------------------------------- the file system
\* The kernel's resolution of a path string to components from "/".
RECURSIVE Walk(_, _)
Walk(at, rest) ==
    IF rest = << >> THEN at
    ELSE LET x == Head(rest) IN
         IF x = "" \/ x = "." THEN Walk(at, Tail(rest))
         ELSE IF x = ".." THEN
              Walk(IF at = << >> THEN at ELSE Front(at), Tail(rest))
         ELSE Walk(Append(at, x), Tail(rest))

Resolve(p) == Walk(IF IsRooted(p) THEN << >> ELSE Cwd, p)

DirNode == [kind |-> "dir", data |-> << >>]
FileNode(d) == [kind |-> "file", data |-> d]

\* stat(2): "dir", "file", or the errno.
Lookup(f, ap) ==
    LET bad == {i \in 0..(Len(ap) - 1) :
                   \/ Prefix(ap, i) \notin DOMAIN f
                   \/ f[Prefix(ap, i)].kind # "dir"}
    IN  IF bad # {} THEN
            (IF Prefix(ap, Min(bad)) \in DOMAIN f THEN "ENOTDIR" ELSE "ENOENT")
        ELSE IF ap \notin DOMAIN f THEN "ENOENT"
        ELSE f[ap].kind

\* The file system the program starts in.
FS0 == [q \in {<< >>, Cwd, Resolve(DefaultTempDir)} |-> DirNode]

Put(f, ap, node) == [q \in (DOMAIN f) \cup {ap} |-> IF q = ap THEN node ELSE f[q]]

\* The modification times after a call that took f to f2 at time t: a node
\* that the call created, truncated or wrote (touched), and the directory
\* that received a new entry, are stamped with t.
Stamp(m, f, f2, touched, t) ==
    LET created == (DOMAIN f2) \ (DOMAIN f) IN
    [q \in DOMAIN f2 |->
        IF \/ q \in created \cup touched
           \/ \E c \in created : c # << >> /\ Front(c) = q
        THEN t ELSE m[q]]

\* os.Mkdir in the place of os.MkdirAll: the parent is not created.
Mkdir(f, ap, bad) ==
    LET st == Lookup(f, ap) IN
    IF st = "dir" THEN [fs |-> f, err |-> "nil"]
    ELSE IF st = "file" THEN [fs |-> f, err |-> "ENOTDIR"]
    ELSE IF Len(ap) > 0 /\ Lookup(f, Front(ap)) # "dir" THEN [fs |-> f, err |-> "ENOENT"]
    ELSE IF ap = bad THEN [fs |-> f, err |-> "EIO"]
    ELSE [fs |-> Put(f, ap, DirNode), err |-> "nil"]

\* os.MkdirAll(path, perm); bad is the directory whose mkdir(2) the
\* environment fails (NoPath: none).
RECURSIVE MkdirAll(_, _, _)
MkdirAll(f, ap, bad) ==
    LET st == Lookup(f, ap) IN
    IF st = "dir" THEN [fs |-> f, err |-> "nil"]
    ELSE IF st = "file" THEN [fs |-> f, err |-> "ENOTDIR"]
    ELSE LET up == IF Len(ap) > 0 THEN MkdirAll(f, Front(ap), bad)
                   ELSE [fs |-> f, err |-> "nil"]
         IN  IF up.err # "nil" THEN up
             ELSE IF ap = bad THEN [fs |-> up.fs, err |-> "EIO"]
             ELSE [fs |-> Put(up.fs, ap, DirNode), err |-> "nil"]

\* os.OpenFile without O_TRUNC: an existing file keeps its bytes.
OpenNoTrunc(f, ap) ==
    LET st == Lookup(f, ap) IN
    IF st = "file" THEN [fs |-> f, err |-> "nil"]
    ELSE IF st = "dir" THEN [fs |-> f, err |-> "EISDIR"]
    ELSE IF st = "ENOENT" /\ Len(ap) > 0 /\ Lookup(f, Front(ap)) = "dir"
        THEN [fs |-> Put(f, ap, FileNode(<< >>)), err |-> "nil"]
    ELSE [fs |-> f, err |-> st]

\* os.OpenFile(name, O_WRONLY|O_CREATE|O_TRUNC, perm), the first step of
\* ioutil.WriteFile.
OpenTrunc(f, ap) ==
    LET st == Lookup(f, ap) IN
    IF st = "file" THEN [fs |-> Put(f, ap, FileNode(<< >>)), err |-> "nil"]
    ELSE IF st = "dir" THEN [fs |-> f, err |-> "EISDIR"]
    ELSE IF st = "ENOENT" /\ Len(ap) > 0 /\ Lookup(f, Front(ap)) = "dir"
        THEN [fs |-> Put(f, ap, FileNode(<< >>)), err |-> "nil"]
    ELSE [fs |-> f, err |-> st]

\* write(2) of b at offset 0 of a descriptor opened as above.
Overlay(old, b) == b \o SubSeq(old, Len(b) + 1, Len(old))

\* os.Open behind an index of the names that were Set: a name that is not
\* in it is reported missing without a look at the file system.
OpenReadIndexed(f, ap) ==
    LET st == Lookup(f, ap) IN
    IF \A e \in everSet : Resolve(localName(e[1], e[2])) # ap THEN "ErrCacheNotFound"
    ELSE IF st \in {"file", "dir"} THEN "ok"
    ELSE IF st = "ENOENT" THEN "ErrCacheNotFound"
    ELSE st

\* os.Open(name) as Get classifies its result.
OpenRead(f, ap) ==
    LET st == Lookup(f, ap) IN
    IF st \in {"file", "dir"} THEN "ok"
    ELSE IF st = "ENOENT" THEN "ErrCacheNotFound"
    ELSE st

\* ------------------------------------------------------- goroutines
\* The path Get and Set work on.
Target(root, name) == Resolve(localName(root, name))

\* The directory a Root string names: Root, or the temp directory for "".
RootDir(root) == Resolve(IF root = <<"">> THEN TempDir ELSE root)

\* The path a name denotes under the root directory of a store, read as a
\* UNIX path relative to it.
Denoted(root, name) == Walk(RootDir(root), name)

\* The bytes stored at a path (NoData: no regular file there).
Content(f, ap) == IF Lookup(f, ap) = "file" THEN f[ap].data ELSE NoData

\* The directories strictly between a store's root and the file of a name.
Intermediate(root, name) ==
    LET ap == Target(root, name)
        rp == Target(root, <<"">>)
    IN  {Prefix(ap, i) : i \in 0..(Len(ap) - 1)} \ {Prefix(rp, i) : i \in 0..Len(rp)}

Fresh(f, root, name) ==
    /\ IsPrefix(Target(root, <<"">>), Target(root, name))
    /\ Intermediate(root, name) # {}
    /\ \A d \in Intermediate(root, name) : Lookup(f, d) = "ENOENT"
    /\ Lookup(f, Target(root, name)) = "ENOENT"

Idle ==
    [pc |-> "idle", op |-> "none", store |-> <<"">>, name |-> NoName,
     b |-> NoData, done |-> FALSE, res |-> "none", path |-> NoPath,
     h |-> FALSE, hname |-> NoName, hpath |-> NoPath, off |-> 0,
     got |-> << >>, eof |-> FALSE, rderr |-> FALSE,
     alone |-> FALSE, after |-> NoData, afterRes |-> "none",
     over |-> NoData, pre |-> NoData, old |-> NoData,
     conc |-> 0, concData |-> NoData, fresh |-> FALSE,
     modTime |-> NoTime, closed |-> FALSE, sk |-> 0, seen |-> "none",
     tmp |-> NoPath, afterTmp |-> NoPath,
     at |-> NoTime, setAt |-> NoTime, gotAt |-> NoTime]

Off == [Idle EXCEPT !.pc = "off"]

Quiet(t) == \A u \in Threads \ {t} : th[u].pc \in {"idle", "off"}

\* A goroutine between the call of Get and the Close of its entry.
InGet(u) == th[u].op = "Get" /\ (th[u].pc = "stat" \/ th[u].h)

\* History kept for the other goroutines when t makes a call: they are no
\* longer alone, and a Set that overlaps a Get is counted on that Get.
Others(t, isSet, s, n, p) ==
    [u \in Threads \ {t} |->
        IF isSet /\ InGet(u)
        THEN [th[u] EXCEPT
                !.alone = FALSE,
                !.conc = IF @ = 0 /\ th[u].store = s /\ th[u].name = n THEN 1 ELSE 2,
                !.concData = IF th[u].conc = 0 /\ th[u].store = s /\ th[u].name = n
                             THEN p ELSE NoData]
        ELSE [th[u] EXCEPT !.alone = FALSE]]

Chain(t, s, n) ==
    /\ th[t].op = "Set" /\ th[t].res # "none"
    /\ th[t].store = s /\ th[t].name = n /\ th[t].alone

\* Set creating the directories before it drains the reader.
CallSetDirsFirst(t, s, n, p, done, srcFail) ==
    /\ th[t].pc = "idle" /\ ~th[t].h
    /\ srcFail => faults > 0
    /\ LET me == [Idle EXCEPT
                    !.op = "Set", !.store = s, !.name = n, !.b = p,
                    !.done = done,
                    !.pc = IF srcFail THEN "idle" ELSE "mkdir",
                    !.res = IF srcFail THEN "ESRC" ELSE "none",
                    !.alone = Quiet(t),
                    !.pre = Content(fs, Target(s, n)),
                    !.fresh = Fresh(fs, s, n),
                    !.at = now]
           oth == Others(t, TRUE, s, n, p)
       IN  th' = [u \in Threads |-> IF u = t THEN me ELSE oth[u]]
    /\ fs' = MkdirAll(fs, Resolve(Dir(localName(s, n))), NoPath).fs
    /\ mt' = Stamp(mt, fs, fs', {}, now)
    /\ faults' = IF srcFail THEN faults - 1 ELSE faults
    /\ everSet' = everSet \cup {<<s, n>>}
    /\ UNCHANGED <<now, handles, env>>

\* LocalCacher.Set, up to the return of ioutil.ReadAll(r).  srcFail: the
\* reader r fails before its end.
CallSet(t, s, n, p, done, srcFail) ==
    /\ th[t].pc = "idle" /\ ~th[t].h
    /\ srcFail => faults > 0
    /\ LET me == [Idle EXCEPT
                    !.op = "Set", !.store = s, !.name = n, !.b = p,
                    !.done = done,
                    !.pc = IF srcFail THEN "idle" ELSE "mkdir",
                    !.res = IF srcFail THEN "ESRC" ELSE "none",
                    !.alone = Quiet(t),
                    !.over = IF Chain(t, s, n) /\ th[t].res = "ok"
                             THEN th[t].b ELSE NoData,
                    !.pre = Content(fs, Target(s, n)),
                    !.fresh = Fresh(fs, s, n),
                    !.at = now]
           oth == Others(t, TRUE, s, n, p)
       IN  th' = [u \in Threads |-> IF u = t THEN me ELSE oth[u]]
    /\ faults' = IF srcFail THEN faults - 1 ELSE faults
    /\ everSet' = everSet \cup {<<s, n>>}
    /\ UNCHANGED <<fs, mt, now, handles, env>>

Return(t, res) == [th EXCEPT ![t].pc = "idle", ![t].res = res]

\* LocalCacher.Set: localName and os.MkdirAll(filepath.Dir(localName)).
SetMkdirAll(t) ==
    /\ th[t].pc = "mkdir"
    /\ LET ln == localName(th[t].store, th[t].name)
           dp == Resolve(Dir(ln))
       IN  \E bad \in {NoPath} \cup
                      (IF faults > 0 THEN {Prefix(dp, i) : i \in 1..Len(dp)} ELSE {}) :
             LET r == MkdirAll(fs, dp, bad) IN
             /\ bad # NoPath => r.err = "EIO"
             /\ fs' = r.fs
             /\ mt' = Stamp(mt, fs, r.fs, {}, now)
             /\ faults' = IF r.err = "EIO" THEN faults - 1 ELSE faults
             /\ th' = IF r.err = "nil"
                      THEN [th EXCEPT ![t].pc = "open", ![t].path = Resolve(ln),
                                      ![t].tmp = Resolve(TempDir)]
                      ELSE [Return(t, r.err) EXCEPT ![t].tmp = Resolve(TempDir)]
    /\ UNCHANGED <<now, handles, env, everSet>>

\* ioutil.WriteFile: os.OpenFile with O_WRONLY|O_CREATE|O_TRUNC.
SetOpen(t) ==
    /\ th[t].pc = "open"
    /\ LET r == OpenTrunc(fs, th[t].path) IN
       /\ fs' = r.fs
       /\ mt' = Stamp(mt, fs, r.fs, IF r.err = "nil" THEN {th[t].path} ELSE {}, now)
       /\ handles' = IF r.err = "nil" THEN handles + 1 ELSE handles
       /\ th' = IF r.err = "nil" THEN [th EXCEPT ![t].pc = "write"]
                ELSE Return(t, r.err)
    /\ UNCHANGED <<now, faults, env, everSet>>

\* What f.Write(data) leaves in the file: data over the bytes at offset 0.
Written(old, b) == Overlay(old, b)

\* The error ioutil.WriteFile returns after f.Write wrote k bytes of b.
WriteResult(b, k) == IF k < Len(b) THEN "EIO" ELSE "ok"

\* ioutil.WriteFile: f.Write(data), f.Close() and the return of Set.  The
\* environment may stop the write after k < len(data) bytes.
SetWrite(t) ==
    /\ th[t].pc = "write"
    /\ LET ap == th[t].path
           b == th[t].b
       IN  \E k \in (IF faults > 0 THEN 0..Len(b) ELSE {Len(b)}) :
             /\ fs' = Put(fs, ap, FileNode(Written(fs[ap].data, Prefix(b, k))))
             /\ mt' = Stamp(mt, fs, fs', IF k > 0 THEN {ap} ELSE {}, now)
             /\ th' = Return(t, WriteResult(b, k))
             /\ faults' = IF k < Len(b) THEN faults - 1 ELSE faults
    /\ handles' = handles - 1
    /\ UNCHANGED <<now, env, everSet>>

\* Get opening the name itself, not its local name under the root.
GetPathNoRoot(root, name) == Resolve(FromSlash(name))

\* The path LocalCacher.Get opens.
GetPath(root, name) == Target(root, name)

\* LocalCacher.Get, up to the return of os.Open.
CallGet(t, s, n, done) ==
    /\ th[t].pc = "idle" /\ ~th[t].h
    /\ LET ap == GetPath(s, n)
           r == OpenRead(fs, ap)
           ch == Chain(t, s, n)
           me == [Idle EXCEPT
                    !.op = "Get", !.store = s, !.name = n,
                    !.done = done,
                    !.pc = IF r = "ok" THEN "stat" ELSE "idle",
                    !.res = IF r = "ok" THEN "none" ELSE r,
                    !.hpath = IF r = "ok" THEN ap ELSE NoPath,
                    !.alone = Quiet(t),
                    !.after = IF ch THEN th[t].b ELSE NoData,
                    !.afterRes = IF ch THEN th[t].res ELSE "none",
                    !.over = IF ch THEN th[t].over ELSE NoData,
                    !.pre = IF ch THEN th[t].pre ELSE NoData,
                    !.fresh = IF ch THEN th[t].fresh ELSE FALSE,
                    !.old = IF Quiet(t) THEN Content(fs, ap) ELSE NoData,
                    !.seen = Lookup(fs, Denoted(s, n)),
                    !.tmp = Resolve(TempDir),
                    !.afterTmp = IF ch THEN th[t].tmp ELSE NoPath,
                    !.setAt = IF ch THEN th[t].at ELSE NoTime]
           oth == Others(t, FALSE, s, n, NoData)
       IN  /\ th' = [u \in Threads |-> IF u = t THEN me ELSE oth[u]]
           /\ handles' = IF r = "ok" THEN handles + 1 ELSE handles
    /\ UNCHANGED <<fs, mt, now, faults, env, everSet>>

\* LocalCacher.Get: file.Stat() and the construction of the localCache.
\* When Stat fails Get returns the error and the file stays open.
GetStat(t) ==
    /\ th[t].pc = "stat"
    /\ \E fail \in (IF faults > 0 THEN BOOLEAN ELSE {FALSE}) :
         /\ th' = IF fail
                  THEN [th EXCEPT ![t].pc = "idle", ![t].res = "EIO",
                                  ![t].hpath = NoPath]
                  ELSE [th EXCEPT ![t].pc = "idle", ![t].res = "ok",
                                  ![t].h = TRUE, ![t].hname = th[t].name,
                                  ![t].modTime = mt[th[t].hpath],
                                  ![t].gotAt = now]
         /\ faults' = IF fail THEN faults - 1 ELSE faults
    /\ UNCHANGED <<fs, mt, now, handles, env, everSet>>

\* localCache.Read with a buffer of k bytes.
Read(t, k) ==
    /\ th[t].pc = "idle" /\ th[t].h /\ ~th[t].eof /\ ~th[t].rderr
    /\ LET node == fs[th[t].hpath]
           avail == Len(node.data) - th[t].off
           n == IF k < avail THEN k ELSE avail
       IN  th' = IF node.kind = "dir" THEN [th EXCEPT ![t].rderr = TRUE]
                 ELSE IF avail <= 0 THEN [th EXCEPT ![t].eof = TRUE]
                 ELSE [th EXCEPT
                         ![t].got = @ \o SubSeq(node.data, th[t].off + 1, th[t].off + n),
                         ![t].off = @ + n]
    /\ UNCHANGED <<fs, mt, now, handles, faults, env, everSet>>

\* lseek(2) with every offset taken from the current position.
SeekPosCur(off, size, offset, whence) == off + offset

\* The position lseek(2) moves to: offset from the start (whence 0), from
\* the current position (1) or from the end of the file (2).
SeekPos(off, size, offset, whence) ==
    IF whence = 0 THEN offset
    ELSE IF whence = 1 THEN off + offset
    ELSE size + offset

\* localCache.Seek.  A negative position is an error and moves nothing.
\* History: sk is the offset of the last Seek when it was an absolute one
\* (NoTime otherwise), got and eof are the bytes read since.
Seek(t, offset, whence) ==
    /\ th[t].pc = "idle" /\ th[t].h
    /\ LET pos == SeekPos(th[t].off, Len(fs[th[t].hpath].data), offset, whence) IN
       /\ pos <= MaxSeek
       /\ th' = IF pos < 0 THEN th
                ELSE [th EXCEPT ![t].off = pos,
                                ![t].sk = IF whence = 0 THEN offset ELSE NoTime,
                                ![t].got = << >>, ![t].eof = FALSE]
    /\ UNCHANGED <<fs, mt, now, handles, faults, env, everSet>>

\* Close that also removes the file of the entry.
CloseRemove(t) ==
    /\ th[t].pc = "idle" /\ th[t].h
    /\ th' = [th EXCEPT ![t] = [Idle EXCEPT !.hname = th[t].hname,
                                            !.modTime = th[t].modTime,
                                            !.closed = TRUE]]
    /\ handles' = handles - 1
    /\ LET ap == th[t].hpath
           free == /\ fs[ap].kind = "file"
                   /\ \A u \in Threads \ {t} : th[u].hpath # ap
                   /\ \A u \in Threads : th[u].pc = "write" => th[u].path # ap
           gone == IF free THEN {ap} ELSE {}
       IN  /\ fs' = [q \in (DOMAIN fs) \ gone |-> fs[q]]
           /\ mt' = [q \in (DOMAIN fs) \ gone |-> mt[q]]
    /\ UNCHANGED <<now, faults, env, everSet>>

\* localCache.Close.  The entry keeps its name and its modification time.
Close(t) ==
    /\ th[t].pc = "idle" /\ th[t].h
    /\ th' = [th EXCEPT ![t] = [Idle EXCEPT !.hname = th[t].hname,
                                            !.modTime = th[t].modTime,
                                            !.closed = TRUE]]
    /\ handles' = handles - 1
    /\ UNCHANGED <<fs, mt, now, faults, env, everSet>>

\* The name with its empty and "." segments dropped.
NameClean(t) == Clean(th[t].hname)

\* localCache.Name
Name(t) == th[t].hname

\* The modification time of the file as it is now.
ModTimeLive(t) == IF th[t].h THEN mt[th[t].hpath] ELSE th[t].modTime

\* localCache.ModTime
ModTime(t) == th[t].modTime

\* ------------------------------------------------------- the environment
\* The clock advances.
Tick ==
    /\ now < MaxClock
    /\ now' = now + 1
    /\ UNCHANGED <<fs, mt, handles, th, faults, env, everSet>>

\* The process environment changes: TMPDIR is set to d.
SetTempDir(d) ==
    /\ d # env.tmpdir
    /\ env' = [env EXCEPT !.tmpdir = d]
    /\ UNCHANGED <<fs, mt, now, handles, th, faults, everSet>>

\* A path no goroutine has a descriptor on.
Unused(q) ==
    \A t \in Threads :
        /\ (th[t].h \/ th[t].pc = "stat") => th[t].hpath # q
        /\ th[t].pc = "write" => th[t].path # q

\* Another process removes a file, or an empty directory, that the
\* goroutines created and have no descriptor on.
Remove(q) ==
    /\ q \in (DOMAIN fs) \ (DOMAIN FS0)
    /\ \A c \in DOMAIN fs : c # << >> => Front(c) # q
    /\ Unused(q)
    /\ fs' = [c \in (DOMAIN fs) \ {q} |-> fs[c]]
    /\ mt' = [c \in (DOMAIN fs) \ {q} |->
                IF c = Front(q) THEN now ELSE mt[c]]
    /\ UNCHANGED <<now, handles, th, faults, env, everSet>>

Next ==
    \/ \E t \in Threads, s \in env.stores, n \in env.names, p \in env.payloads,
          done \in env.ctxs, srcFail \in BOOLEAN : CallSet(t, s, n, p, done, srcFail)
    \/ \E t \in Threads : SetMkdirAll(t)
    \/ \E t \in Threads : SetOpen(t)
    \/ \E t \in Threads : SetWrite(t)
    \/ \E t \in Threads, s \in env.stores, n \in env.names, done \in env.ctxs :
          CallGet(t, s, n, done)
    \/ \E t \in Threads : GetStat(t)
    \/ \E t \in Threads, k \in 1..MaxLen : Read(t, k)
    \/ \E t \in Threads : Close(t)

\* The callers also seek in their entries.
NextSeek ==
    \/ Next
    \/ \E t \in Threads, offset \in (-1)..MaxSeek, whence \in 0..2 :
          Seek(t, offset, whence)

\* The clock advances between the calls.
NextTime == Next \/ Tick

\* TMPDIR changes between the calls.
NextTemp == Next \/ \E d \in env.tmpdirs : SetTempDir(d)

\* Another process removes files.
NextExt == Next \/ \E q \in DOMAIN fs : Remove(q)

\* ------------------------------------------------------- specifications
InitWith(e, ts, nf) ==
    /\ fs = FS0
    /\ mt = [q \in DOMAIN FS0 |-> 0]
    /\ now = 0
    /\ handles = 0
    /\ th = [t \in Threads |-> IF t \in ts THEN Idle ELSE Off]
    /\ faults = nf
    /\ env = e @@ [tmpdir |-> <<"">>, tmpdirs |-> {<<"">>}]
    /\ everSet = {}

\* One store, one caller at a time.
Init == InitWith([stores |-> {<<"r">>},
                  names |-> {<<"a">>, <<"a", "b">>},
                  ctxs |-> {FALSE},
                  payloads |-> Payloads], {1}, 0)
Spec == Init /\ [][Next]_vars

\* One store, one caller at a time, I/O faults.
InitFault == InitWith([stores |-> {<<"r">>},
                       names |-> {<<"a", "b">>},
                       ctxs |-> {FALSE},
                       payloads |-> Payloads], {1}, MaxFaults)
SpecFault == InitFault /\ [][Next]_vars

\* One store, names that share a file or a directory, or leave the root;
\* cancelled contexts.
InitNames == InitWith([stores |-> {<<"r">>},
                       names |-> {<<"a">>, <<"a", "b">>, <<"a", "", "b">>,
                                  <<"..", "a">>},
                       ctxs |-> {FALSE, TRUE},
                       payloads |-> {<<1>>, <<2>>}], {1}, 0)
SpecNames == InitNames /\ [][Next]_vars

\* One store, two concurrent callers.
InitConc == InitWith([stores |-> {<<"r">>},
                      names |-> {<<"a">>},
                      ctxs |-> {FALSE},
                      payloads |-> {<<1, 1>>, <<2>>}], {1, 2}, 0)
SpecConc == InitConc /\ [][Next]_vars

\* Several stores, one caller at a time.
InitRoots == InitWith([stores |-> {<<"r">>, <<"r", "a">>, <<"">>, <<"", "tmp">>},
                       names |-> {<<"a">>, <<"a", "b">>},
                       ctxs |-> {FALSE},
                       payloads |-> {<<1>>}], {1}, 0)
SpecRoots == InitRoots /\ [][Next]_vars

\* One store, one caller that reads and seeks; a name that is not clean.
InitSeek == InitWith([stores |-> {<<"r">>},
                      names |-> {<<"a">>, <<"a", "", "b">>},
                      ctxs |-> {FALSE},
                      payloads |-> Payloads], {1}, 0)
SpecSeek == InitSeek /\ [][NextSeek]_vars

\* One store, two callers, a clock that advances.
InitTime == InitWith([stores |-> {<<"r">>},
                      names |-> {<<"a">>},
                      ctxs |-> {FALSE},
                      payloads |-> {<<1>>}], {1, 2}, 0)
SpecTime == InitTime /\ [][NextTime]_vars

\* A store on the temp directory and one on a Root; TMPDIR changes.
InitTemp == InitWith([stores |-> {<<"">>, <<"r">>},
                      names |-> {<<"a">>, <<"a", "b">>},
                      ctxs |-> {FALSE},
                      payloads |-> {<<1>>},
                      tmpdir |-> <<"">>,
                      tmpdirs |-> {<<"">>, <<"", "t2">>}], {1}, 0)
SpecTemp == InitTemp /\ [][NextTemp]_vars

\* One store, two callers each with a LocalCacher value of the same Root;
\* another process removes files.
InitExt == InitWith([stores |-> {<<"r">>},
                     names |-> {<<"a">>, <<"a", "b">>},
                     ctxs |-> {FALSE},
                     payloads |-> {<<1>>}], {1, 2}, 0)
SpecExt == InitExt /\ [][NextExt]_vars

TypeOK ==
    /\ \A q \in DOMAIN fs : fs[q].kind \in {"dir", "file"}
    /\ \A q \in DOMAIN fs : q # << >> => Lookup(fs, Front(q)) = "dir"
    /\ \A q \in DOMAIN fs : Len(fs[q].data) <= MaxLen
    /\ faults \in 0..MaxFaults
    /\ DOMAIN mt = DOMAIN fs
    /\ \A q \in DOMAIN mt : mt[q] \in 0..now
    /\ now \in 0..MaxClock
    /\ handles \in 0..(Cardinality(Threads) + MaxFaults)
    /\ \A t \in Threads : th[t].h => Lookup(fs, th[t].hpath) \in {"dir", "file"}

\* ------------------------------------------------------- views
\* What Get(name) on the store with this Root, followed by a read to the
\* end of the stream, returns in file system f.
GetView(f, root, name) ==
    [res |-> OpenRead(f, GetPath(root, name)),
     data |-> Content(f, GetPath(root, name))]

\* What Set(name, P) on the store with this Root returns in file system f
\* when no I/O fault occurs.
SetView(f, root, name) ==
    LET ln == localName(root, name)
        r == MkdirAll(f, Resolve(Dir(ln)), NoPath)
    IN  IF r.err # "nil" THEN r.err ELSE OpenTrunc(r.fs, Resolve(ln)).err

\* Two paths of which neither is the other nor lies under the other.
Unrelated(p, q) == ~IsPrefix(p, q) /\ ~IsPrefix(q, p)

\* A name with no parent-directory segment.
NoDotDot(name) == \A i \in 1..Len(name) : name[i] # ".."

\* A name that leads out of the root directory of the store.
Escapes(root, name) == ~IsPrefix(RootDir(root), Denoted(root, name))

\* Goroutine t takes a step of Set that works on the file system.
SetStep(t) == th[t].pc \in {"mkdir", "open", "write"} /\ th'[t] # th[t]

\* Goroutine t has returned from a call.
Returned(t, op) == th[t].op = op /\ th[t].pc = "idle" /\ th[t].res # "none"

\* ------------------------------------------------------- claims

\* C1: a Get(n) that directly follows a successful Set(n, P) on the same
\* store, with no other call in between or meanwhile, succeeds, and reading
\* its entry from the start to the end of the stream yields exactly P.
C1_RoundTrip ==
    \A t \in Threads :
        (Returned(t, "Get") /\ th[t].afterRes = "ok" /\ th[t].alone) =>
            /\ th[t].res = "ok"
            /\ th[t].h
            /\ ~th[t].rderr
            /\ th[t].eof => th[t].got = th[t].after

C1_Witness ==
    \E t \in Threads :
        /\ Returned(t, "Get") /\ th[t].afterRes = "ok" /\ th[t].alone
        /\ th[t].name = <<"a", "b">>
        /\ th[t].eof /\ th[t].got = th[t].after /\ th[t].got = <<1, 2>>

\* C2: a Get(n) for a name n that was never passed to Set on that store
\* (nothing exists under the root at the start) returns ErrCacheNotFound.
C2_MissSignaling ==
    \A t \in Threads :
        (Returned(t, "Get") /\ <<th[t].store, th[t].name>> \notin everSet) =>
            th[t].res = "ErrCacheNotFound"

\* C3: a Get(n) that directly follows Set(n, P1) and then Set(n, P2), both
\* successful, yields an entry whose full read is exactly P2.
C3_Overwrite ==
    \A t \in Threads :
        (/\ Returned(t, "Get") /\ th[t].alone
         /\ th[t].afterRes = "ok" /\ th[t].over # NoData
         /\ th[t].eof) =>
            /\ th[t].got = th[t].after
            /\ Len(th[t].got) = Len(th[t].after)

C3_Witness ==
    \E t \in Threads :
        /\ Returned(t, "Get") /\ th[t].alone /\ th[t].afterRes = "ok"
        /\ th[t].over = <<1, 1>> /\ th[t].after = <<2>>
        /\ th[t].eof /\ th[t].got = <<2>>

\* C4: when exactly one Set(n, Pnew) starts while a Get(n) and the reads of
\* its entry run, over a name that held Pold when Get was called (no call
\* was in progress then), the bytes read up to the end of the stream are
\* the complete Pold or the complete Pnew.
C4_AtomicReplace ==
    \A t \in Threads :
        (/\ th[t].op = "Get" /\ th[t].h /\ th[t].eof
         /\ th[t].old # NoData /\ th[t].conc = 1) =>
            th[t].got \in {th[t].old, th[t].concData}

\* C5: a Set(n, P) reports success only when the file of n holds P, and a
\* Get(n) that directly follows a failed Set(n, P) and succeeds delivers the
\* complete payload stored before that Set, or the complete P.
C5_FailedSet ==
    \A t \in Threads :
        /\ (Returned(t, "Set") /\ th[t].alone /\ th[t].res = "ok") =>
              Content(fs, Target(th[t].store, th[t].name)) = th[t].b
        /\ (/\ Returned(t, "Get") /\ th[t].alone
            /\ th[t].afterRes \notin {"ok", "none"}
            /\ th[t].res = "ok" /\ th[t].eof) =>
              th[t].got \in {th[t].pre, th[t].after}

C7_AllRoots ==
    [][\A t \in Threads : SetStep(t) =>
          \A s \in env.stores \ {th[t].store}, m \in env.names :
              GetView(fs', s, m) = GetView(fs, s, m)]_vars

\* C7 (amended): a step of Set(n, P) on one store never changes what Get(m)
\* returns on a store with another Root string, when the path n denotes
\* under the root directory of the first (Root, or the temp directory for
\* an empty Root) and the path m denotes under the root directory of the
\* second are distinct and neither lies under the other; that is so for
\* all names without ".." segment when the two root directories are
\* distinct and neither lies under the other.
C7_RootIsolation ==
    [][\A t \in Threads : SetStep(t) =>
          \A s \in env.stores \ {th[t].store}, m \in env.names :
              /\ (Unrelated(RootDir(th[t].store), RootDir(s))
                    /\ NoDotDot(th[t].name) /\ NoDotDot(m)) =>
                      Unrelated(Denoted(th[t].store, th[t].name), Denoted(s, m))
              /\ Unrelated(Denoted(th[t].store, th[t].name), Denoted(s, m)) =>
                      GetView(fs', s, m) = GetView(fs, s, m)]_vars

C7_Witness ==
    \E t \in Threads :
        /\ Returned(t, "Set") /\ th[t].res = "ok"
        /\ th[t].store = <<"r">> /\ th[t].name = <<"a">>
        /\ Unrelated(RootDir(<<"r">>), RootDir(<<"", "tmp">>))
        /\ GetView(fs, <<"r">>, <<"a">>) = [res |-> "ok", data |-> <<1>>]
        /\ GetView(fs, <<"r">>, <<"a", "b">>).res = "ENOTDIR"
        /\ GetView(fs, <<"", "tmp">>, <<"a", "b">>) = [res |-> "ok", data |-> <<1>>]

\* C8: a Get or Set with a name that leads out of the root returns an error
\* other than ErrCacheNotFound, and every file or directory that a call
\* created is the root directory of a store, or lies above or under it.
C8_EscapeRejected ==
    /\ \A t \in Threads :
          ((Returned(t, "Get") \/ Returned(t, "Set"))
              /\ Escapes(th[t].store, th[t].name)) =>
            th[t].res \notin {"ok", "ErrCacheNotFound"}
    /\ \A q \in (DOMAIN fs) \ (DOMAIN FS0) :
          \E s \in env.stores : IsPrefix(RootDir(s), q) \/ IsPrefix(q, RootDir(s))

\* C9: a Get or Set called with a cancelled context returns an error other
\* than ErrCacheNotFound, and after such a Set the file of the name holds
\* what it held when Set was called.
C9_Cancelled ==
    \A t \in Threads :
        /\ (th[t].done /\ (Returned(t, "Get") \/ Returned(t, "Set"))) =>
              th[t].res \notin {"ok", "ErrCacheNotFound"}
        /\ (th[t].done /\ Returned(t, "Set") /\ th[t].alone) =>
              Content(fs, Target(th[t].store, th[t].name)) = th[t].pre

\* C10: a Set(n, P) for a name n with intermediate directories, called when
\* none of them nor the file exists, with no other call meanwhile and no
\* I/O fault, succeeds and leaves all of them as directories, and the Get(n)
\* that directly follows succeeds.
C10_AutoCreate ==
    \A t \in Threads :
        /\ (/\ Returned(t, "Set") /\ th[t].fresh /\ th[t].alone
            /\ th[t].res \notin {"EIO", "ESRC"}) =>
              /\ th[t].res = "ok"
              /\ \A d \in Intermediate(th[t].store, th[t].name) :
                    Lookup(fs, d) = "dir"
              /\ GetView(fs, th[t].store, th[t].name) =
                    [res |-> "ok", data |-> th[t].b]
        /\ (/\ Returned(t, "Get") /\ th[t].fresh /\ th[t].alone
            /\ th[t].afterRes \notin {"EIO", "ESRC"}
            /\ th[t].res # "EIO") =>
              th[t].res = "ok"

C10_Witness ==
    \E t \in Threads :
        /\ Returned(t, "Get") /\ th[t].fresh /\ th[t].alone
        /\ th[t].name = <<"a", "b">> /\ th[t].afterRes = "ok"
        /\ th[t].res = "ok"
        /\ Cardinality(Intermediate(th[t].store, th[t].name)) = 1
        /\ Lookup(fs, RootDir(th[t].store)) = "dir"

\* The entry of goroutine t: returned by Get, open or closed.
Entry(t) == th[t].h \/ th[t].closed

\* C11: the Name() of an entry returned by Get(n) is the string n as it was
\* passed, neither cleaned nor translated, and stays what it is through
\* every Read, Seek and Close of the entry.
C11_NameEcho ==
    /\ [](\A t \in Threads : th[t].h => Name(t) = th[t].name)
    /\ [][\A t \in Threads : (Entry(t) /\ Entry(t)') => Name(t)' = Name(t)]_vars

C11_Witness ==
    \E t \in Threads :
        /\ th[t].closed /\ ~th[t].h
        /\ Name(t) = <<"a", "", "b">>
        /\ Name(t) # Clean(Name(t))

\* C13: the ModTime() of an entry stays what it was when Get returned, through
\* every later step of any goroutine and the Close of the entry; and an
\* entry that a Get returns directly after a successful Set of the name has a
\* modification time not earlier than the call of that Set, so later than
\* that of every entry of the name returned before the clock last advanced
\* ahead of that call.
C13_ModTime ==
    /\ [][\A t \in Threads :
             (Entry(t) /\ Entry(t)') => ModTime(t)' = ModTime(t)]_vars
    /\ [](\A t \in Threads, u \in Threads :
             (/\ th[t].h /\ th[u].h /\ th[t].hpath = th[u].hpath
              /\ th[u].afterRes = "ok") =>
                /\ ModTime(u) >= th[u].setAt
                /\ th[t].gotAt < th[u].setAt => ModTime(t) < ModTime(u))

C13_Witness ==
    \E t \in Threads, u \in Threads :
        /\ th[t].h /\ th[u].h /\ th[t].hpath = th[u].hpath
        /\ th[u].afterRes = "ok" /\ th[t].gotAt < th[u].setAt
        /\ ModTime(t) = 0 /\ ModTime(u) = MaxClock
        /\ mt[th[t].hpath] = MaxClock

\* C14 (as claimed): Set ensures the intermediate directories of the name
\* before it drains the byte source, so they exist after a Set whose source
\* failed while being read.
C14_DirsFirst ==
    \A t \in Threads :
        (Returned(t, "Set") /\ th[t].res = "ESRC") =>
            \A d \in Intermediate(th[t].store, th[t].name) : Lookup(fs, d) = "dir"

\* C14 (amended): Set drains the byte source before it translates the name
\* and ensures the intermediate directories, so a Set whose source failed
\* while being read has created no directory and has left the file of the
\* name as it was; the directories are created, and the file is written,
\* only by a Set that holds the complete payload.
C14_DrainFirst ==
    /\ [](\A t \in Threads :
             (Returned(t, "Set") /\ th[t].res = "ESRC" /\ th[t].alone) =>
                /\ Content(fs, Target(th[t].store, th[t].name)) = th[t].pre
                /\ th[t].fresh =>
                      \A d \in Intermediate(th[t].store, th[t].name) :
                          Lookup(fs, d) = "ENOENT")
    /\ [][fs' # fs =>
             \E t \in Threads :
                 /\ th[t].pc \in {"mkdir", "open", "write"}
                 /\ th[t].b \in env.payloads
                 /\ th'[t].pc # th[t].pc]_vars

C14_Witness ==
    \E t \in Threads :
        /\ Returned(t, "Set") /\ th[t].res = "ESRC" /\ th[t].alone
        /\ th[t].fresh /\ th[t].b = <<1, 2>>
        /\ Intermediate(th[t].store, th[t].name) = {<<"w", "r", "a">>}
        /\ Lookup(fs, <<"w", "r", "a">>) = "ENOENT"

\* C15: on a store with an empty Root, a Get(n) that directly follows a
\* successful Set(n, P) made under another temp directory, called when n
\* does not exist under the present temp directory, returns
\* ErrCacheNotFound; and a change of the temp directory changes neither the
\* file system nor the local name, and so the result, of any Get or Set on
\* a store with a non-empty Root.
C15_LazyTempDir ==
    /\ [](\A t \in Threads :
             (/\ Returned(t, "Get") /\ th[t].store = <<"">>
              /\ th[t].afterRes = "ok" /\ th[t].alone
              /\ th[t].afterTmp # th[t].tmp
              /\ Lookup(fs, Walk(th[t].tmp, th[t].name)) = "ENOENT") =>
                th[t].res = "ErrCacheNotFound")
    /\ [][env'.tmpdir # env.tmpdir =>
             /\ fs' = fs
             /\ \A s \in env.stores \ {<<"">>}, n \in env.names :
                    localName(s, n)' = localName(s, n)]_vars

C15_Witness ==
    \E t \in Threads :
        /\ Returned(t, "Get") /\ th[t].store = <<"">> /\ th[t].name = <<"a">>
        /\ th[t].afterRes = "ok" /\ th[t].alone
        /\ th[t].afterTmp = <<"tmp">> /\ th[t].tmp = <<"t2">>
        /\ th[t].res = "ErrCacheNotFound"
        /\ Content(fs, <<"tmp", "a">>) = <<1>>
        /\ GetView(fs, <<"r">>, <<"a">>) = [res |-> "ok", data |-> <<1>>]

\* No directory on the way to path ap is in fact a file.
DirsFree(f, ap) ==
    \A i \in 0..(Len(ap) - 1) :
        Prefix(ap, i) \in DOMAIN f => f[Prefix(ap, i)].kind = "dir"

\* C16: what Get(n) returns is decided by what the file system holds, when
\* Get is called, at the path n denotes under the Root: ErrCacheNotFound
\* exactly when nothing is there, also after a successful Set(n, P) whose
\* file another process removed, an entry exactly when a file or directory
\* is there; the steps of Set succeed or fail by the file system alone; and
\* two goroutines, each with its own LocalCacher value of the same Root,
\* that hold entries of the same name with no Set in between hold the same
\* file or directory and read the same bytes and modification time.
C16_NoIndex ==
    /\ [](\A t \in Threads :
             (th[t].op = "Get" /\ (th[t].pc = "stat" \/ Returned(t, "Get"))) =>
                /\ th[t].res = "ErrCacheNotFound" <=> th[t].seen = "ENOENT"
                /\ (th[t].pc = "stat" \/ th[t].res = "ok") <=>
                      th[t].seen \in {"file", "dir"})
    /\ [](\A t \in Threads, u \in Threads :
             (/\ th[t].h /\ th[u].h
              /\ th[t].store = th[u].store /\ th[t].name = th[u].name
              /\ th[t].old # NoData /\ th[u].old # NoData
              /\ th[t].conc = 0 /\ th[u].conc = 0) =>
                /\ ModTime(t) = ModTime(u)
                /\ th[t].seen = th[u].seen /\ th[t].hpath = th[u].hpath
                /\ th[t].old = th[u].old
                /\ (th[t].eof /\ th[u].eof) => th[t].got = th[u].got)
    /\ [][\A t \in Threads :
             LET ap == Denoted(th[t].store, th[t].name) IN
             /\ (th[t].pc = "mkdir" /\ th'[t].pc # "mkdir") =>
                   (th'[t].pc = "open" <=> DirsFree(fs, ap))
             /\ (th[t].pc = "open" /\ th'[t].pc # "open") =>
                   (th'[t].pc = "write" <=>
                       /\ Lookup(fs, ap) \in {"file", "ENOENT"}
                       /\ Lookup(fs, Front(ap)) = "dir")]_vars

C16_Witness ==
    \E t \in Threads, u \in Threads :
        /\ Returned(t, "Get") /\ th[t].afterRes = "ok" /\ th[t].alone
        /\ th[t].name = <<"a", "b">>
        /\ th[t].seen = "ENOENT" /\ th[t].res = "ErrCacheNotFound"
        /\ t # u /\ th[u].h /\ th[u].name = <<"a">> /\ th[u].seen = "dir"

\* C17: once two Sets of the same name, Set(n, P1) and Set(n, P2), have both
\* returned success, whether one ran after the other or both at the same
\* time, the full read of the entry a Get(n) then returns is exactly P1 or
\* exactly P2.
C17_NoMixture ==
    \A t \in Threads, u \in Threads :
        (/\ t # u
         /\ Returned(t, "Set") /\ th[t].res = "ok"
         /\ Returned(u, "Set") /\ th[u].res = "ok"
         /\ th[t].store = th[u].store /\ th[t].name = th[u].name) =>
            /\ GetView(fs, th[t].store, th[t].name).res = "ok"
            /\ GetView(fs, th[t].store, th[t].name).data \in {th[t].b, th[u].b}

\* The descriptors the goroutines account for: one for each entry that is
\* not closed, one inside a Get between os.Open and its return, one inside
\* ioutil.WriteFile.
Held == {t \in Threads : th[t].h \/ th[t].pc \in {"stat", "write"}}

\* C18: the open file descriptors are those of the entries that successful
\* Gets returned and that are not yet closed, and those of the calls in
\* progress; a Get that returned an error has left none open.
C18_NoLeak == handles = Cardinality(Held)

\* C12: reading an entry to the end of the stream after a Seek to the
\* absolute offset k, 0 <= k <= len(P), yields P without its first k bytes,
\* where P is the payload the name held at Get, whatever was read or sought
\* before; an entry that was never sought reads from offset 0.
C12_Seek ==
    \A t \in Threads :
        (/\ th[t].h /\ th[t].eof /\ th[t].old # NoData
         /\ th[t].sk >= 0 /\ th[t].sk <= Len(th[t].old)) =>
            th[t].got = SubSeq(th[t].old, th[t].sk + 1, Len(th[t].old))

C12_Witness ==
    \E t \in Threads :
        /\ th[t].h /\ th[t].eof /\ th[t].old = <<1, 2>>
        /\ th[t].sk = 1 /\ th[t].got = <<2>>

\* A step of Set by some goroutine.
SetSide == \E t \in Threads : th'[t].op = "Set" /\ th'[t] # th[t]

\* C19: a call of Get, whether it succeeds or fails, and a Read, Seek or
\* Close of an entry leave every file and directory, with its bytes and
\* its modification time, as it was.
C19_GetReadOnly ==
    [][(~SetSide /\ th' # th) => (fs' = fs /\ mt' = mt)]_vars

C19_Witness ==
    \E t \in Threads :
        /\ th[t].closed /\ Name(t) = <<"a">>
        /\ GetView(fs, <<"r">>, <<"a">>) = [res |-> "ok", data |-> <<1, 2>>]
        /\ GetView(fs, <<"r">>, <<"a", "", "b">>).res = "ENOTDIR"
====
